---- MODULE Spec2Model ----
(***************************************************************************)
(* Verification model of the OrthoGenesisAI backend.                       *)
(*                                                                         *)
(* Part 1: the asynchronous job engine                                     *)
(*   backend/app/services/async_jobs.py  (enqueue_job, AsyncJobWorker)     *)
(*   backend/app/api/routes/reconstruct.py (retry_job)                     *)
(*                                                                         *)
(* The async_jobs table is shared state.  Every handler works on it        *)
(* through its own SQLAlchemy session: a query loads a row into the        *)
(* session, attribute assignments change the loaded object, and commit()   *)
(* flushes an UPDATE that names only the columns whose assigned value      *)
(* differs from the loaded one.  A handler is therefore modelled by the    *)
(* step that loads the row and the step that commits, and steps of the     *)
(* worker thread and of API request threads interleave.                    *)
(*                                                                         *)
(* Columns of async_jobs that only carry presentation data (updated_at,    *)
(* stage, progress, eta_seconds) and the uuid text of the key are not      *)
(* part of the state: job ids are 1, 2, ... in order of creation.          *)
(***************************************************************************)
EXTENDS Integers, Sequences, FiniteSets, TLC

\* ------------------------------------------------------------------ bounds
MaxTime == 1         \* last value of the wall clock, in seconds
AttemptCap == 2      \* retry_job is requested for jobs below this many attempts
LifecycleTime == 6   \* as MaxTime, in SpecLifecycle
BackoffAttempts == 5 \* as AttemptCap, in SpecBackoff

\* ------------------------------------------------------- program constants
ErrorLimit == 2000      \* error[:2000]
BackoffCap == 30        \* min(30, ...)
BackoffBase == 2        \* 2 ** ...

\* -------------------------------------------------------------- utilities
Min(a, b) == IF a <= b THEN a ELSE b
Max(a, b) == IF a >= b THEN a ELSE b

RECURSIVE Pow(_, _)
Pow(b, e) == IF e = 0 THEN 1 ELSE b * Pow(b, e - 1)

\* Optional values (Python None / a value): a sequence of length 0 or 1.
None == << >>
Some(x) == << x >>

\* A text is known by the message it is a prefix of and by its length.
Text(m, n) == [msg |-> m, len |-> n]

\* error[:n] -- the first n characters of a text.
Truncate(t, n) == [msg |-> t.msg, len |-> Min(t.len, n)]

\* ------------------------------------------------------------------ inputs
Objects == {1, 2}       \* job_worker objects, one per backend process
Threads == {1, 2}       \* threads that may run AsyncJobWorker._run_loop
SupportedTypes == {"reconstruct", "export"}

\* Texts of exceptions a handler raises: one of the handlers' own short
\* messages, and a long one (a driver or library error with its context).
ShortError == Text("No X-rays available for reconstruction", 38)
LongError == Text("storage backend failure", 2500)

\* raise ValueError(f"Unsupported job type: {job.job_type}")
UnsupportedError(jt) == Text("Unsupported job type", 22 + 9)

VARIABLES
    now,         \* datetime.utcnow(), in seconds
    jobs,        \* the async_jobs table: job id -> row
    hist,        \* history: per job, its status changes up to the first retry_job
    env,         \* the deployment and its workload (fixed by Init)
    worker,      \* per job_worker object: _thread (0 is None) and _stop_event
    alive,       \* Thread.is_alive() of each thread
    owner,       \* the job_worker object whose _run_loop a thread runs
    pc,          \* where each thread is in _run_loop
    loc,         \* the row loaded in the thread's open session, and the caught error
    req          \* the retry_job request in flight: the row it has loaded

\* State of the other parts of the backend.
VARIABLES
    stream,      \* the open GET /jobs/{job_id}/stream response, as its generator sees it
    arg,         \* the call under study of a function of the reconstruction stack
    out,         \* what that call returned or raised (None before the call)
    rng,         \* the process's pseudo-random generators: << seed, drawn from since >>
    files,       \* the storage directory: a set of [key, content]
    runs,        \* what the runs of the reconstruction pipeline returned, in order
    mesh,        \* the content behind the reconstruction's mesh_key (0: no mesh yet)
    artifacts,   \* the export_artifacts table, in order of insertion
    exp,         \* per worker process: where its thread is in _process_export
    resp,        \* the response to the last request of an export route
    recon        \* the reconstructions row of POST /reconstruct, and where the
                 \* worker's thread is in _process_reconstruct

store == << rng, files, runs >>

exports == << mesh, artifacts, exp, resp, recon >>

aux == << stream, arg, out, store, exports >>

vars == << now, jobs, hist, env, worker, alive, owner, pc, loc, req, aux >>

JobIds == DOMAIN jobs

NoLoc == [job_id |-> 0, row |-> None, error |-> None]

\* No function of the reconstruction stack is under study.
NoCall == [fn |-> "none"]

\* No stream_job request has been made.
NoStream == [job_id |-> 0, open |-> FALSE, last |-> None, events |-> 0]

\* ------------------------------------------------------ the session flush
\* commit() on a loaded object: UPDATE only the assigned columns whose value
\* differs from the value the session loaded; other columns keep what the
\* table holds now.
Flush(row, loaded, assigned) ==
    [c \in DOMAIN row |->
        IF c \in DOMAIN assigned /\ assigned[c] # loaded[c]
        THEN assigned[c] ELSE row[c]]

\* commit() on an object expired by an earlier commit() of the same session:
\* every assigned column is written.
FlushAll(row, assigned) ==
    [c \in DOMAIN row |-> IF c \in DOMAIN assigned THEN assigned[c] ELSE row[c]]

\* History: the status changes of job j with the available_at each left,
\* kept while no operator has retried the job (<< >> afterwards).
Entry(row) == [status |-> row.status, available_at |-> row.available_at]

Logged(j, new) ==
    IF hist[j] = << >> \/ new.status = jobs[j].status
    THEN hist[j] ELSE Append(hist[j], Entry(new))

\* ------------------------------------------------------------- enqueue_job
NewJob(jt, ma) ==
    [ job_type |-> jt, status |-> "queued", payload_json |-> jt,
      result_json |-> None, error |-> None, attempts |-> 0,
      max_attempts |-> ma, dead_letter |-> FALSE, available_at |-> now,
      created_at |-> now, finished_at |-> None ]

enqueue_job(jt, ma) ==
    /\ << jt, ma >> \in env.requests
    /\ \A j \in JobIds : << jobs[j].job_type, jobs[j].max_attempts >> # << jt, ma >>
    /\ LET id == Cardinality(JobIds) + 1 IN
         /\ jobs' = [j \in JobIds \cup {id} |-> IF j = id THEN NewJob(jt, ma) ELSE jobs[j]]
         /\ hist' = [j \in JobIds \cup {id} |->
                        IF j = id
                        THEN << Entry(NewJob(jt, ma)) >>
                        ELSE hist[j]]
    /\ UNCHANGED << now, env, worker, alive, owner, pc, loc, req, aux >>

\* ------------------------------------------------- AsyncJobWorker.start/stop
\* if self._thread and self._thread.is_alive(): return
StartGuardNoAliveCheck(o) == TRUE

StartGuard(o) == IF worker[o].thread = 0 THEN TRUE ELSE ~alive[worker[o].thread]

FreeThreads == { t \in Threads : ~alive[t] }

\* self._stop_event.clear(); self._thread = Thread(...); self._thread.start()
start_thread(o) ==
    /\ FreeThreads # {}
    /\ LET t == CHOOSE x \in FreeThreads : \A y \in FreeThreads : x <= y IN
         /\ worker' = [worker EXCEPT ![o] = [thread |-> t, stop_event |-> FALSE]]
         /\ alive' = [alive EXCEPT ![t] = TRUE]
         /\ owner' = [owner EXCEPT ![t] = o]
         /\ pc' = [pc EXCEPT ![t] = "loop"]

\* A call that finds the thread alive returns at once and changes nothing.
start(o) ==
    /\ o \in env.workers
    /\ StartGuard(o)
    /\ start_thread(o)
    /\ UNCHANGED << now, jobs, hist, env, loc, req, aux >>

\* self._stop_event.set(); the join gives up after 2 seconds.
stop(o) ==
    /\ o \in env.workers
    /\ worker' = [worker EXCEPT ![o].stop_event = TRUE]
    /\ UNCHANGED << now, jobs, hist, env, alive, owner, pc, loc, req, aux >>

\* ------------------------------------------------- AsyncJobWorker._run_loop
Stopped(t) == worker[owner[t]].stop_event

run_loop_exit(t) ==
    /\ alive[t] /\ pc[t] \in {"loop", "sleep"}
    /\ Stopped(t)
    /\ alive' = [alive EXCEPT ![t] = FALSE]
    /\ pc' = [pc EXCEPT ![t] = "idle"]
    /\ UNCHANGED << now, jobs, hist, env, worker, owner, loc, req, aux >>

\* time.sleep(self._poll_interval_sec) returns
run_loop_wake(t) ==
    /\ alive[t] /\ pc[t] = "sleep"
    /\ ~Stopped(t)
    /\ pc' = [pc EXCEPT ![t] = "loop"]
    /\ UNCHANGED << now, jobs, hist, env, worker, alive, owner, loc, req, aux >>

\* ------------------------------------------ AsyncJobWorker._try_process_one
EligibleAnyStatus(j, at) ==
    /\ jobs[j].status \in {"queued", "dead"}
    /\ jobs[j].available_at <= at

Eligible(j, at) ==
    /\ jobs[j].status = "queued"
    /\ jobs[j].dead_letter = FALSE
    /\ jobs[j].available_at <= at

\* .order_by(created_at.asc()).first(): a row of least created_at.
Newest(S) == { j \in S : \A k \in S : jobs[j].created_at >= jobs[k].created_at }

Oldest(S) == { j \in S : \A k \in S : jobs[j].created_at <= jobs[k].created_at }

try_process_one_select(t) ==
    /\ alive[t] /\ pc[t] = "loop"
    /\ ~Stopped(t)
    /\ LET cand == Oldest({ j \in JobIds : Eligible(j, now) }) IN
         IF cand = {}
         THEN /\ pc' = [pc EXCEPT ![t] = "sleep"]
              /\ UNCHANGED loc
         ELSE \E j \in cand :
                /\ loc' = [loc EXCEPT ![t] = [job_id |-> j, row |-> Some(jobs[j]), error |-> None]]
                /\ pc' = [pc EXCEPT ![t] = "lease"]
    /\ UNCHANGED << now, jobs, hist, env, worker, alive, owner, req, aux >>

LeaseAssign(loaded) ==
    [status |-> "running", attempts |-> loaded.attempts + 1]

try_process_one_commit(t) ==
    /\ alive[t] /\ pc[t] = "lease"
    /\ LET j == loc[t].job_id
           loaded == loc[t].row[1]
           new == Flush(jobs[j], loaded, LeaseAssign(loaded)) IN
         /\ jobs' = [jobs EXCEPT ![j] = new]
         /\ hist' = [hist EXCEPT ![j] = Logged(j, new)]
    /\ pc' = [pc EXCEPT ![t] = "process"]
    /\ loc' = [loc EXCEPT ![t] = [job_id |-> loc[t].job_id, row |-> None, error |-> None]]
    /\ UNCHANGED << now, env, worker, alive, owner, req, aux >>

\* ---------------------------------------------- AsyncJobWorker._process_job
SuccessAssignKeepError(jt, at) ==
    [status |-> "succeeded", result_json |-> Some(jt), finished_at |-> Some(at)]

SuccessAssign(jt, at) ==
    [status |-> "succeeded", result_json |-> Some(jt), error |-> None, finished_at |-> Some(at)]

process_job_success(t) ==
    /\ alive[t] /\ pc[t] = "process"
    /\ LET j == loc[t].job_id
           new == FlushAll(jobs[j], SuccessAssign(jobs[j].job_type, now)) IN
         /\ jobs[j].job_type \in SupportedTypes
         /\ jobs' = [jobs EXCEPT ![j] = new]
         /\ hist' = [hist EXCEPT ![j] = Logged(j, new)]
    /\ pc' = [pc EXCEPT ![t] = "loop"]
    /\ loc' = [loc EXCEPT ![t] = NoLoc]
    /\ UNCHANGED << now, env, worker, alive, owner, req, aux >>

\* except Exception as exc: self._mark_failure(job_id, str(exc)) -- the
\* worker enters _mark_failure, whose query loads the row.
CaughtNowhere(t, e) ==
    /\ pc' = [pc EXCEPT ![t] = "idle"]
    /\ loc' = [loc EXCEPT ![t] = NoLoc]
    /\ alive' = [alive EXCEPT ![t] = FALSE]

Caught(t, e) ==
    /\ pc' = [pc EXCEPT ![t] = "mark"]
    /\ loc' = [loc EXCEPT ![t] = [job_id |-> loc[t].job_id,
                                   row |-> Some(jobs[loc[t].job_id]),
                                   error |-> Some(e)]]
    /\ UNCHANGED alive

process_job_raise(t) ==
    /\ alive[t] /\ pc[t] = "process"
    /\ LET jt == jobs[loc[t].job_id].job_type IN
         IF jt \in SupportedTypes
         THEN \E e \in env.errors : Caught(t, e)
         ELSE Caught(t, UnsupportedError(jt))
    /\ UNCHANGED << now, jobs, hist, env, worker, owner, req, aux >>

\* --------------------------------------------- AsyncJobWorker._mark_failure
Backoff(retry_count) == Min(BackoffCap, Pow(BackoffBase, Max(1, retry_count)))

\* int(job.max_attempts or 1)
MaxAttemptsOf(row) == IF row.max_attempts = 0 THEN 1 ELSE row.max_attempts

FailureAssignOneMore(loaded, e, at) ==
    IF loaded.attempts <= MaxAttemptsOf(loaded)
    THEN [status |-> "queued", available_at |-> at + Backoff(loaded.attempts),
          error |-> Some(Truncate(e, ErrorLimit))]
    ELSE [status |-> "dead", dead_letter |-> TRUE,
          error |-> Some(Truncate(e, ErrorLimit)), finished_at |-> Some(at)]

FailureAssign(loaded, e, at) ==
    IF loaded.attempts < MaxAttemptsOf(loaded)
    THEN [status |-> "queued", available_at |-> at + Backoff(loaded.attempts),
          error |-> Some(Truncate(e, ErrorLimit))]
    ELSE [status |-> "dead", dead_letter |-> TRUE,
          error |-> Some(Truncate(e, ErrorLimit)), finished_at |-> Some(at)]

mark_failure_commit(t) ==
    /\ alive[t] /\ pc[t] = "mark"
    /\ LET j == loc[t].job_id
           loaded == loc[t].row[1]
           new == Flush(jobs[j], loaded, FailureAssign(loaded, loc[t].error[1], now)) IN
         /\ jobs' = [jobs EXCEPT ![j] = new]
         /\ hist' = [hist EXCEPT ![j] = Logged(j, new)]
    /\ pc' = [pc EXCEPT ![t] = "loop"]
    /\ loc' = [loc EXCEPT ![t] = NoLoc]
    /\ UNCHANGED << now, env, worker, alive, owner, req, aux >>

\* ---------------------------------------------------------------- retry_job
RetryAssignResetAttempts(at) ==
    [status |-> "queued", dead_letter |-> FALSE, error |-> None, available_at |-> at,
     attempts |-> 0]

RetryAssign(at) ==
    [status |-> "queued", dead_letter |-> FALSE, error |-> None, available_at |-> at]

retry_job_load(j) ==
    /\ j \in JobIds
    /\ req = None
    /\ jobs[j].attempts < env.cap
    /\ req' = Some([job_id |-> j, row |-> jobs[j]])
    /\ UNCHANGED << now, jobs, hist, env, worker, alive, owner, pc, loc, aux >>

retry_job_commit ==
    /\ req # None
    /\ LET j == req[1].job_id
           new == Flush(jobs[j], req[1].row, RetryAssign(now)) IN
         /\ jobs' = [jobs EXCEPT ![j] = new]
         /\ hist' = [hist EXCEPT ![j] = << >>]
    /\ req' = None
    /\ UNCHANGED << now, env, worker, alive, owner, pc, loc, aux >>

\* --------------------------------------------------------------- the clock
Tick ==
    /\ now < env.max_time
    /\ now' = now + 1
    /\ UNCHANGED << jobs, hist, env, worker, alive, owner, pc, loc, req, aux >>

\* ---------------------------------------------------------- specifications
InitIdle(e) ==
    /\ now = 0
    /\ jobs = << >>
    /\ hist = << >>
    /\ env = e
    /\ worker = [o \in Objects |-> [thread |-> 0, stop_event |-> FALSE]]
    /\ alive = [t \in Threads |-> FALSE]
    /\ owner = [t \in Threads |-> 1]
    /\ pc = [t \in Threads |-> "idle"]
    /\ loc = [t \in Threads |-> NoLoc]
    /\ req = None
    /\ stream = NoStream

NoStore == rng = << 0, FALSE >> /\ files = {} /\ runs = << >>

\* No POST /reconstruct has been made.
NoReconstruction == [status |-> "none", pc |-> "idle"]

IdleExport == [pc |-> "idle", format |-> "", converted |-> None, version |-> 0]

NoExports ==
    /\ mesh = 0
    /\ artifacts = << >>
    /\ exp = [w \in Objects |-> IdleExport]
    /\ resp = None
    /\ recon = NoReconstruction

InitWith(e) == InitIdle(e) /\ arg = NoCall /\ out = None /\ NoStore /\ NoExports

\* env.requests: the enqueue_job calls the clients make, each once, in any
\* order and at any time.

\* One process with its one job_worker object (main.py).
Init ==
    InitWith([workers |-> {1}, max_time |-> MaxTime,
              requests |-> { <<"reconstruct", 2>>, <<"thumbnail", 1>> },
              errors |-> {ShortError}, cap |-> AttemptCap])

\* One process, one job followed through its whole retry budget.
InitLifecycle ==
    InitWith([workers |-> {1}, max_time |-> LifecycleTime,
              requests |-> { <<"reconstruct", 3>> },
              errors |-> {ShortError}, cap |-> AttemptCap])

\* One process, one job failing with a long error text again and again.
InitBackoff ==
    InitWith([workers |-> {1}, max_time |-> MaxTime,
              requests |-> { <<"export", 6>> },
              errors |-> {LongError}, cap |-> BackoffAttempts])

\* Several worker processes, each with its own lease loop on the shared table.
InitMulti ==
    InitWith([workers |-> Objects, max_time |-> MaxTime,
              requests |-> { <<"export", 2>> },
              errors |-> {ShortError}, cap |-> AttemptCap])

\* raise ValueError(f"Unknown reconstruction model '{name}'. Available: ...")
UnknownModelError == Text("Unknown reconstruction model", 60)

\* One process, one reconstruct job enqueued by POST /reconstruct for a model
\* name the registry does not know.
InitValidation ==
    InitWith([workers |-> {1}, max_time |-> LifecycleTime,
              requests |-> { <<"reconstruct", 3>> },
              errors |-> {UnknownModelError}, cap |-> AttemptCap])

Next ==
    \/ \E r \in env.requests : enqueue_job(r[1], r[2])
    \/ \E o \in Objects : start(o)
    \/ \E o \in Objects : stop(o)
    \/ \E t \in Threads : run_loop_exit(t)
    \/ \E t \in Threads : run_loop_wake(t)
    \/ \E t \in Threads : try_process_one_select(t)
    \/ \E t \in Threads : try_process_one_commit(t)
    \/ \E t \in Threads : process_job_success(t)
    \/ \E t \in Threads : process_job_raise(t)
    \/ \E t \in Threads : mark_failure_commit(t)
    \/ \E j \in JobIds : retry_job_load(j)
    \/ retry_job_commit
    \/ Tick

Spec == Init /\ [][Next]_vars

SpecLifecycle == InitLifecycle /\ [][Next]_vars

SpecBackoff == InitBackoff /\ [][Next]_vars

SpecMulti == InitMulti /\ [][Next]_vars

SpecValidation == InitValidation /\ [][Next]_vars

\* The last call of a sequence of start() and stop() calls on the job worker,
\* a start(): arg records it, and no start() or stop() follows.  The calls are
\* made one after the other, so a start() that follows a stop() finds the
\* thread alive only when the join of that stop() gave up on a handler that
\* was still running.
start_last(o) ==
    /\ arg = NoCall
    /\ o \in env.workers
    /\ IF StartGuard(o)
       THEN start_thread(o)
       ELSE /\ worker[o].stop_event => pc[worker[o].thread] = "process"
            /\ UNCHANGED << worker, alive, owner, pc >>
    /\ arg' = [fn |-> "start", object |-> o]
    /\ UNCHANGED << now, jobs, hist, env, loc, req, stream, out, store, exports >>

\* The steps of a thread in _run_loop while no stop is asked for.
LoopStep(t) ==
    \/ run_loop_wake(t)
    \/ try_process_one_select(t)
    \/ try_process_one_commit(t)
    \/ process_job_success(t)
    \/ process_job_raise(t)
    \/ mark_failure_commit(t)

\* The steps of a thread in _run_loop.
ThreadStep(t) == run_loop_exit(t) \/ LoopStep(t)

\* Everything but the calls of start() and stop().
Work ==
    \/ \E r \in env.requests : enqueue_job(r[1], r[2])
    \/ \E t \in Threads : ThreadStep(t)
    \/ \E j \in JobIds : retry_job_load(j)
    \/ retry_job_commit
    \/ Tick

\* One process; two jobs that fail at most once.
InitRestart ==
    InitWith([workers |-> {1}, max_time |-> MaxTime,
              requests |-> { <<"reconstruct", 1>>, <<"export", 1>> },
              errors |-> {ShortError}, cap |-> 1])

NextRestart ==
    \/ arg = NoCall /\ Next
    \/ \E o \in Objects : start_last(o)
    \/ arg # NoCall /\ Work

\* A started thread is scheduled, its handlers return or raise, and time
\* passes.
SpecRestart ==
    /\ InitRestart
    /\ [][NextRestart]_vars
    /\ \A t \in Threads : WF_vars(ThreadStep(t))
    /\ WF_vars(Tick)

\* ======================================================== job status stream
\* backend/app/api/routes/reconstruct.py (stream_job)
\*
\* stream.events is the parity of the number of events the generator has
\* yielded, stream.last the status in the last one.

\* if job.status in {"succeeded", "failed", "dead"}: break
TerminalNoDead == {"succeeded", "failed"}

Terminal == {"succeeded", "failed", "dead"}

\* The request: 404 unless the job exists; else the response starts streaming.
stream_job(j) ==
    /\ stream = NoStream
    /\ j \in JobIds
    /\ stream' = [job_id |-> j, open |-> TRUE, last |-> None, events |-> 0]
    /\ UNCHANGED << now, jobs, hist, env, worker, alive, owner, pc, loc, req, arg, out, store, exports >>

\* One turn of event_generator's loop: query, yield the snapshot, break on a
\* terminal status (or on a missing row), else sleep one second.
event_generator ==
    /\ stream.open
    /\ LET j == stream.job_id IN
         IF j \notin JobIds
         THEN stream' = [stream EXCEPT !.open = FALSE]
         ELSE stream' = [stream EXCEPT !.last = Some(jobs[j].status),
                                       !.events = 1 - stream.events,
                                       !.open = jobs[j].status \notin Terminal]
    /\ UNCHANGED << now, jobs, hist, env, worker, alive, owner, pc, loc, req, arg, out, store, exports >>

\* One process, one job, and a client that streams its status.
InitStream ==
    InitWith([workers |-> {1}, max_time |-> MaxTime,
              requests |-> { <<"export", 1>> },
              errors |-> {ShortError}, cap |-> AttemptCap])

NextStream ==
    \/ Next
    \/ \E j \in JobIds : stream_job(j)
    \/ event_generator

\* The event loop runs the generator again after each sleep.
SpecStream == InitStream /\ [][NextStream]_vars /\ WF_vars(event_generator)

\* ================================================================ the Mesher
\* backend/app/reconstruction/engine.py (_heightmap_to_mesh,
\* _top_vertex_confidence, _build_confidence_report)
\*
\* A heightmap is [rows, cols, h] with h[<<y, x>>] the height of a cell in
\* thousandths (0 .. 1000 for 0.0 .. 1.0).  Ratios of a confidence report are
\* and its overall confidence are in ten-thousandths, the unit round(., 4)
\* keeps; the histogram and the constant fields of a report are left out.
\* Confidences are exact rationals in units of 1 / ConfidenceOne (the code
\* holds them as float32, which differs only in ties of the roundings).

MeshRows == 3        \* most rows of a heightmap
MeshCols == 3        \* most columns of a heightmap

SurfaceFloor == 8         \* surface_floor=0.008
ObservedThreshold == 72   \* observed_threshold = 0.72, in hundredths
AdjustedThreshold == 32   \* adjusted_threshold = 0.32, in hundredths

\* Heights of the heightmaps studied: nothing, a faint cell, a full cell.
Heights == {0, 300, 1000}

HeightmapsOver(values, r, c) ==
    { [rows |-> r, cols |-> c, h |-> f] : f \in [ (0..(r - 1)) \X (0..(c - 1)) -> values ] }

HeightmapsOf(r, c) == HeightmapsOver(Heights, r, c)

MeshShapes == (1..MeshRows) \X (1..MeshCols)

vertex_count(hm) == hm.rows * hm.cols

top_index(hm, y, x) == y * hm.cols + x

bottom_index(hm, y, x) == vertex_count(hm) + y * hm.cols + x

\* support = heightmap > surface_floor
support(hm, y, x) == hm.h[<<y, x>>] > SurfaceFloor

\* cell_active[y, x]: one of the four corners of the cell is supported.
cell_active(hm, y, x) ==
    \/ support(hm, y, x) \/ support(hm, y, x + 1)
    \/ support(hm, y + 1, x) \/ support(hm, y + 1, x + 1)

\* The wall of a cell towards a neighbour is emitted when the cell is on the
\* rim of the grid or the neighbour is not active.
Wall(hm, rim, y, x) == IF rim THEN TRUE ELSE ~cell_active(hm, y, x)

\* The faces appended for cell (y, x), in the order of the code.
CellFaces(hm, y, x) ==
    IF ~cell_active(hm, y, x) THEN << >>
    ELSE LET tl == top_index(hm, y, x)
             tr == top_index(hm, y, x + 1)
             bl == top_index(hm, y + 1, x)
             br == top_index(hm, y + 1, x + 1)
             btl == bottom_index(hm, y, x)
             btr == bottom_index(hm, y, x + 1)
             bbl == bottom_index(hm, y + 1, x)
             bbr == bottom_index(hm, y + 1, x + 1)
         IN  << <<tl, bl, tr>>, <<tr, bl, br>>, <<btl, btr, bbl>>, <<btr, bbr, bbl>> >>
             \o (IF Wall(hm, y = 0, y - 1, x)
                 THEN << <<tl, btl, tr>>, <<tr, btl, btr>> >> ELSE << >>)
             \o (IF Wall(hm, y = hm.rows - 2, y + 1, x)
                 THEN << <<bl, br, bbl>>, <<br, bbr, bbl>> >> ELSE << >>)
             \o (IF Wall(hm, x = 0, y, x - 1)
                 THEN << <<tl, bl, btl>>, <<bl, bbl, btl>> >> ELSE << >>)
             \o (IF Wall(hm, x = hm.cols - 2, y, x + 1)
                 THEN << <<tr, btr, br>>, <<br, btr, bbr>> >> ELSE << >>)

\* for y in range(rows - 1): for x in range(cols - 1): cell k = y * (cols-1) + x
RECURSIVE GridFaces(_, _)
GridFaces(hm, k) ==
    IF k >= (hm.rows - 1) * (hm.cols - 1) THEN << >>
    ELSE CellFaces(hm, k \div (hm.cols - 1), k % (hm.cols - 1)) \o GridFaces(hm, k + 1)

\* if not faces: the three fallback triangles
\* A mesher without the fallback.
FallbackFacesNone(hm) == << >>

FallbackFaces(hm) ==
    LET vc == vertex_count(hm) IN
      << <<0, 1, hm.cols>>, <<1, hm.cols + 1, hm.cols>>, <<vc, vc + 1, vc + hm.cols>> >>

Faces(hm) ==
    LET faces == GridFaces(hm, 0) IN
      IF faces = << >> THEN FallbackFaces(hm) ELSE faces

\* used_vertices = np.unique(faces_array.reshape(-1))
used_vertices(faces) == UNION { { faces[i][1], faces[i][2], faces[i][3] } : i \in 1..Len(faces) }

\* heightmap[y0:y1, x0:x1], the cells within one step of (y, x)
Patch(hm, y, x) ==
    (Max(0, y - 1)..Min(hm.rows - 1, y + 1)) \X (Max(0, x - 1)..Min(hm.cols - 1, x + 1))

\* Confidence 1.0: 50 * 25 * 992 * 36, so that the products below are whole
\* (a patch has 4, 6 or 9 cells).
ConfidenceOne == 1250 * 992 * 36

\* (0.34 + 0.66 * base) * (0.68 + 0.32 * local_support), base = (h - 8) / 992
\*   = (17 * 992 + 33 * (h - 8)) / (50 * 992) * (17 * size + 8 * above) / (25 * size)
top_vertex_confidence(hm, y, x) ==
    LET h == hm.h[<<y, x>>]
        patch == Patch(hm, y, x)
        above == Cardinality({ c \in patch : hm.h[c] > SurfaceFloor })
    IN  IF h <= 0 THEN 0
        ELSE (17 * 992 + 33 * Min(992, Max(0, h - SurfaceFloor)))
             * (17 * Cardinality(patch) + 8 * above)
             * (36 \div Cardinality(patch))

\* vertex_confidence[i]: bottom vertices carry 0.08.
vertex_confidence(hm, v) ==
    IF v >= vertex_count(hm) THEN (8 * ConfidenceOne) \div 100
    ELSE top_vertex_confidence(hm, v \div hm.cols, v % hm.cols)

\* The class of a used vertex.
ConfidenceClass(hm, v) ==
    LET c == vertex_confidence(hm, v) IN
      IF c >= ObservedThreshold * (ConfidenceOne \div 100) THEN "observed"
      ELSE IF c >= AdjustedThreshold * (ConfidenceOne \div 100) THEN "adjusted"
      ELSE "inferred"

RECURSIVE SumConfidence(_, _)
SumConfidence(hm, S) ==
    IF S = {} THEN 0
    ELSE LET v == CHOOSE u \in S : TRUE IN vertex_confidence(hm, v) + SumConfidence(hm, S \ {v})

\* round(a / b, 4) in ten-thousandths for a in units of 1 / ConfidenceOne.
RoundMean4(a, n) ==
    LET d == (ConfidenceOne \div 10000) * n
        q == a \div d
        r == a % d
    IN  IF 2 * r > d \/ (2 * r = d /\ q % 2 = 1) THEN q + 1 ELSE q

\* round(k / n, 4) in ten-thousandths: to the nearest, a tie to the even one
\* (no tie occurs for n below 32).
Round4(k, n) ==
    LET q == (10000 * k) \div n
        r == (10000 * k) % n
    IN  IF 2 * r > n \/ (2 * r = n /\ q % 2 = 1) THEN q + 1 ELSE q

build_confidence_report(hm, used) ==
    LET n == Cardinality(used)
        count(cls) == Cardinality({ v \in used : ConfidenceClass(hm, v) = cls })
    IN  IF n = 0
        THEN [overall_confidence |-> 0,
              observed_ratio |-> 0, adjusted_ratio |-> 0, inferred_ratio |-> 10000,
              vertex_count |-> 0, empty |-> TRUE]
        ELSE [overall_confidence |-> RoundMean4(SumConfidence(hm, used), n),
              observed_ratio |-> Round4(count("observed"), n),
              adjusted_ratio |-> Round4(count("adjusted"), n),
              inferred_ratio |-> Round4(count("inferred"), n),
              vertex_count |-> n, empty |-> FALSE]

\* _heightmap_to_mesh(heightmap, height_scale=46.0, surface_floor=0.008)
\* What _heightmap_to_mesh returns (the mesh by its faces) or raises.
HeightmapToMesh(hm) ==
    IF hm.rows < 2 \/ hm.cols < 2
    THEN [ok |-> FALSE, error |-> "Heightmap is too small to build a mesh"]
    ELSE LET faces == Faces(hm) IN
           [ok |-> TRUE, faces |-> faces,
            report |-> build_confidence_report(hm, used_vertices(faces))]

heightmap_to_mesh ==
    /\ arg.fn = "heightmap_to_mesh" /\ out = None
    /\ out' = Some(HeightmapToMesh(arg.heightmap))
    /\ UNCHANGED << now, jobs, hist, env, worker, alive, owner, pc, loc, req, stream, arg, store, exports >>

\* No job engine activity: the functions are studied on their own.
NoWorkload == [workers |-> {}, max_time |-> 0, requests |-> {}, errors |-> {}, cap |-> 0]

InitMesher ==
    /\ InitIdle(NoWorkload)
    /\ \E shape \in MeshShapes :
         arg \in { [fn |-> "heightmap_to_mesh", heightmap |-> hm] :
                     hm \in HeightmapsOf(shape[1], shape[2]) }
    /\ out = None
    /\ NoStore /\ NoExports

NextMesher == heightmap_to_mesh

SpecMesher == InitMesher /\ [][NextMesher]_vars

\* The heightmaps of every support pattern: each sample is 0 or full height.
InitMesherPatterns ==
    /\ InitIdle(NoWorkload)
    /\ \E shape \in MeshShapes :
         arg \in { [fn |-> "heightmap_to_mesh", heightmap |-> hm] :
                     hm \in HeightmapsOver({0, 1000}, shape[1], shape[2]) }
    /\ out = None
    /\ NoStore /\ NoExports

SpecMesherPatterns == InitMesherPatterns /\ [][NextMesher]_vars

\* --------------------------------------------------------- region cleaner
\* ReconstructionEngine._fill_holes.  A boolean mask is its shape and the set
\* of its True cells.

MaskRows == 3
MaskCols == 3

Cells(r, c) == (0..(r - 1)) \X (0..(c - 1))

MaskShapes == (1..MaskRows) \X (1..MaskCols)

MasksOf(r, c) == { [rows |-> r, cols |-> c, set |-> s] : s \in SUBSET Cells(r, c) }

StepsDiagonal ==
    << << -1, 0 >>, << 1, 0 >>, << 0, -1 >>, << 0, 1 >>,
       << -1, -1 >>, << -1, 1 >>, << 1, -1 >>, << 1, 1 >> >>

\* (cy - 1, cx), (cy + 1, cx), (cy, cx - 1), (cy, cx + 1)
Steps == << << -1, 0 >>, << 1, 0 >>, << 0, -1 >>, << 0, 1 >> >>

\* The cells passed to seed, in the order of the two loops.
RECURSIVE SeedRow(_, _, _)
SeedRow(rows, cols, x) ==
    IF x >= cols THEN << >>
    ELSE << << 0, x >>, << rows - 1, x >> >> \o SeedRow(rows, cols, x + 1)

RECURSIVE SeedCol(_, _, _)
SeedCol(rows, cols, y) ==
    IF y >= rows THEN << >>
    ELSE << << y, 0 >>, << y, cols - 1 >> >> \o SeedCol(rows, cols, y + 1)

\* seed(y, x) over a list of cells: the state is [outside, queue].
RECURSIVE SeedAll(_, _, _)
SeedAll(inverse, cells, st) ==
    IF cells = << >> THEN st
    ELSE LET c == Head(cells) IN
           SeedAll(inverse, Tail(cells),
                   IF c \in inverse /\ c \notin st.outside
                   THEN [outside |-> st.outside \cup {c}, queue |-> Append(st.queue, c)]
                   ELSE st)

\* One pass over the neighbours of the cell taken from the queue.
RECURSIVE Visit(_, _, _, _, _)
Visit(m, inverse, cell, k, st) ==
    IF k > Len(Steps) THEN st
    ELSE LET n == << cell[1] + Steps[k][1], cell[2] + Steps[k][2] >> IN
           Visit(m, inverse, cell, k + 1,
                 IF n[1] < 0 \/ n[1] >= m.rows \/ n[2] < 0 \/ n[2] >= m.cols THEN st
                 ELSE IF n \in st.outside \/ n \notin inverse THEN st
                 ELSE [outside |-> st.outside \cup {n}, queue |-> Append(st.queue, n)])

\* while queue: ...
RECURSIVE Flood(_, _, _)
Flood(m, inverse, st) ==
    IF st.queue = << >> THEN st.outside
    ELSE Flood(m, inverse,
               Visit(m, inverse, Head(st.queue), 1,
                     [outside |-> st.outside, queue |-> Tail(st.queue)]))

fill_holes_of(m) ==
    LET inverse == Cells(m.rows, m.cols) \ m.set
        seeded == SeedAll(inverse, SeedRow(m.rows, m.cols, 0) \o SeedCol(m.rows, m.cols, 0),
                          [outside |-> {}, queue |-> << >>])
        outside == Flood(m, inverse, seeded)
        holes == inverse \ outside
    IN  [rows |-> m.rows, cols |-> m.cols, set |-> m.set \cup holes]

fill_holes ==
    /\ arg.fn = "fill_holes" /\ out = None
    /\ out' = Some(fill_holes_of(arg.mask))
    /\ UNCHANGED << now, jobs, hist, env, worker, alive, owner, pc, loc, req, stream, arg, store, exports >>

InitCleaner ==
    /\ InitIdle(NoWorkload)
    /\ \E shape \in MaskShapes :
         arg \in { [fn |-> "fill_holes", mask |-> m] : m \in MasksOf(shape[1], shape[2]) }
    /\ out = None
    /\ NoStore /\ NoExports

NextCleaner == fill_holes

SpecCleaner == InitCleaner /\ [][NextCleaner]_vars

\* ReconstructionEngine._clean_heightmap, with _largest_connected_component.
\* Heights are in thousandths, the percentile in hundred-thousandths and the
\* mask floor in ten-millionths.

\* if positive.size < 24
MinPositive == 24

\* max(0.008, ...)
MaskFloorMin == 8

\* margin = 8
CropMargin == 8

Lowest(S) == CHOOSE x \in S : \A y \in S : x <= y
Highest(S) == CHOOSE x \in S : \A y \in S : x >= y

\* positive = heightmap[heightmap > 0]
Positive(hm) == { cell \in DOMAIN hm.h : hm.h[cell] > 0 }

\* The k-th (from 0) of the positive samples in increasing order.
SortedPositive(hm, k) ==
    CHOOSE v \in { hm.h[c] : c \in Positive(hm) } :
        /\ Cardinality({ c \in Positive(hm) : hm.h[c] < v }) <= k
        /\ Cardinality({ c \in Positive(hm) : hm.h[c] <= v }) > k

\* np.percentile(positive, 8): linear interpolation between the two samples
\* around the rank 0.08 * (n - 1).
percentile8(hm) ==
    LET n == Cardinality(Positive(hm))
        rank == 8 * (n - 1)
        lo == rank \div 100
        hi == Min(lo + 1, n - 1)
    IN  100 * SortedPositive(hm, lo)
          + (rank % 100) * (SortedPositive(hm, hi) - SortedPositive(hm, lo))

\* mask_floor = max(0.008, percentile * 0.35)
mask_floor(hm) == Max(MaskFloorMin * 10000, 35 * percentile8(hm))

\* binary = heightmap > mask_floor
binary_mask(hm) ==
    [rows |-> hm.rows, cols |-> hm.cols,
     set |-> { cell \in DOMAIN hm.h : hm.h[cell] * 10000 > mask_floor(hm) }]

\* The scan of _largest_connected_component from cell number k: a component
\* replaces the best one only when it is strictly larger.
RECURSIVE LargestFrom(_, _, _, _)
LargestFrom(m, k, visited, best) ==
    IF k >= m.rows * m.cols THEN best
    ELSE LET cell == << k \div m.cols, k % m.cols >> IN
           IF cell \notin m.set \/ cell \in visited
           THEN LargestFrom(m, k + 1, visited, best)
           ELSE LET component == Flood(m, m.set, [outside |-> {cell}, queue |-> << cell >>]) IN
                  LargestFrom(m, k + 1, visited \cup component,
                              IF Cardinality(component) > Cardinality(best)
                              THEN component ELSE best)

largest_connected_component(m) ==
    [rows |-> m.rows, cols |-> m.cols, set |-> LargestFrom(m, 0, {}, {})]

\* cleaned = np.where(mask, heightmap, 0.0), cut to the box of the mask
\* widened by the margin.
Cropped(hm, mask) ==
    LET y0 == Max(0, Lowest({ c[1] : c \in mask.set }) - CropMargin)
        y1 == Min(hm.rows, Highest({ c[1] : c \in mask.set }) + CropMargin + 1)
        x0 == Max(0, Lowest({ c[2] : c \in mask.set }) - CropMargin)
        x1 == Min(hm.cols, Highest({ c[2] : c \in mask.set }) + CropMargin + 1)
    IN  [rows |-> y1 - y0, cols |-> x1 - x0,
         h |-> [ cell \in Cells(y1 - y0, x1 - x0) |->
                   LET from == << cell[1] + y0, cell[2] + x0 >> IN
                     IF from \in mask.set THEN hm.h[from] ELSE 0 ]]

\* The heightmap goes through the whole of _clean_heightmap: none of the
\* early returns is taken.
full_path(hm) ==
    /\ hm.rows * hm.cols > 0
    /\ Cardinality(Positive(hm)) >= MinPositive
    /\ binary_mask(hm).set # {}

clean_heightmap(hm) ==
    IF hm.rows * hm.cols = 0 THEN hm
    ELSE IF Cardinality(Positive(hm)) < MinPositive THEN hm
    ELSE IF binary_mask(hm).set = {} THEN hm
    ELSE LET mask == largest_connected_component(binary_mask(hm)) IN
           IF mask.set = {} THEN hm
           ELSE Cropped(hm, fill_holes_of(mask))

\* ------------------------------------------------- engine and pipeline
\* ReconstructionEngine.reconstruct under ReconstructionPipeline.run.  An image
\* is either uniform (every pixel of one gray level) or a scan, known by the
\* heightmap that extraction and cleaning yield for it.

ImageSide == 2
Runs == 2

GrayLevels == {0, 255}
Seeds == {7, 42}

UniformImages ==
    { [kind |-> "uniform", rows |-> r, cols |-> c, level |-> g] :
        r \in 1..ImageSide, c \in 1..ImageSide, g \in GrayLevels }

Scans == { [kind |-> "scan", heightmap |-> hm] : hm \in HeightmapsOf(2, 2) }

Zeros(r, c) == [rows |-> r, cols |-> c, h |-> [ cell \in (0..(r - 1)) \X (0..(c - 1)) |-> 0 ]]

\* On a uniform image blur, autocontrast and equalize change nothing, p_low =
\* p_high = threshold = the level, so norm, mask and bone are 0 everywhere and
\* the heightmap has the shape of the image.
extract_bone_heightmap(img) ==
    IF img.kind = "uniform"
    THEN IF img.rows * img.cols = 0 THEN Zeros(2, 2) ELSE Zeros(img.rows, img.cols)
    ELSE img.heightmap

\* An export that would embed a draw from the generators as it finds them.
glb_export_drawn(hm, faces) == [format |-> "glb", vertices |-> hm, faces |-> faces, draw |-> rng]

\* mesh.export(file_type="glb"): the vertices (from the heightmap) and the faces.
glb_export(hm, faces) == [format |-> "glb", vertices |-> hm, faces |-> faces]

\* The bytes of the placeholder cube of a multi-view run.
StubGlb == [format |-> "glb", vertices |-> "cube", faces |-> << >>]

\* What reconstruct returns, before the keys of storage are known.
reconstruct(inputs) ==
    IF Len(inputs) = 1
    THEN LET hm == clean_heightmap(extract_bone_heightmap(inputs[1]))
             m == HeightmapToMesh(hm)
         IN  IF ~m.ok THEN m
             ELSE [ok |-> TRUE, confidence |-> m.report.overall_confidence,
                   glb |-> glb_export(hm, m.faces), faces |-> m.faces,
                   report |-> Some(m.report), notes |-> "Single-image heightmap mesh (test mode)"]
    ELSE [ok |-> TRUE, confidence |-> 8600, glb |-> StubGlb, faces |-> << >>,
          report |-> None, notes |-> "Stub mesh"]

Uuids == 1..Runs

Write(fs, key, content) == { f \in fs : f.key # key } \cup { [key |-> key, content |-> content] }

Stored(fs, key) == { f.content : f \in { g \in fs : g.key = key } }

\* random.seed(seed), np.random.seed(seed), torch.manual_seed(seed)
set_deterministic_seed(seed) == << seed, FALSE >>

\* set_deterministic_seed, then the model's reconstruct, which stores the mesh
\* under a fresh uuid and the report of a single-image run beside it.  A run
\* is recorded with the generator state it started from (rng_before).
pipeline_run ==
    /\ arg.fn = "run" /\ Len(runs) < Runs
    /\ rng' = set_deterministic_seed(arg.seed)
    /\ LET r == reconstruct(arg.inputs) IN
         IF ~r.ok
         THEN runs' = Append(runs, [ok |-> FALSE, error |-> r.error, rng_before |-> rng])
              /\ files' = files
         ELSE \E u \in Uuids :
                /\ Stored(files, << "models", u >>) = {}
                /\ files' = IF r.report = None
                            THEN Write(files, << "models", u >>, r.glb)
                            ELSE Write(Write(files, << "models", u >>, r.glb),
                                       << "confidence", u >>, r.report[1])
                /\ runs' = Append(runs, [ok |-> TRUE, confidence |-> r.confidence,
                                         mesh_key |-> u, faces |-> r.faces, rng_before |-> rng,
                                         confidence_report |-> r.report])
    /\ UNCHANGED << now, jobs, hist, env, worker, alive, owner, pc, loc, req, stream, arg, out, exports >>

\* Any other operation of the process that draws pseudo-random numbers.
draw_random ==
    /\ ~rng[2]
    /\ rng' = << rng[1], TRUE >>
    /\ UNCHANGED << now, jobs, hist, env, worker, alive, owner, pc, loc, req, stream, arg, out, files, runs, exports >>

RunInputs ==
    { << i >> : i \in UniformImages \cup Scans }
        \cup { << i, j >> : i \in UniformImages, j \in { u \in UniformImages : u.rows = 1 } }

InitPipeline ==
    /\ InitIdle(NoWorkload)
    /\ arg \in { [fn |-> "run", inputs |-> i, seed |-> s] : i \in RunInputs, s \in Seeds }
    /\ out = None
    /\ rng \in { << s, FALSE >> : s \in Seeds }
    /\ files = {}
    /\ runs = << >>
    /\ NoExports

NextPipeline == pipeline_run \/ draw_random

SpecPipeline == InitPipeline /\ [][NextPipeline]_vars

\* _mesh_from_xray between the extraction and the export: the heightmap is
\* cleaned and the cleaned heightmap meshed.  The inputs are square plates of
\* height 1.0 with one rectangular zone of another height.
PlateSide == 6

Zones(side) ==
    { << y0, y1, x0, x1 >> \in (0..(side - 1)) \X (0..(side - 1)) \X (0..(side - 1)) \X (0..(side - 1)) :
        y0 <= y1 /\ x0 <= x1 }

Plate(side, zone, v) ==
    [rows |-> side, cols |-> side,
     h |-> [ cell \in Cells(side, side) |->
               IF cell[1] \in zone[1]..zone[2] /\ cell[2] \in zone[3]..zone[4]
               THEN v ELSE 1000 ]]

Plates(side) == { Plate(side, zone, v) : zone \in Zones(side), v \in Heights }

clean_and_mesh ==
    /\ arg.fn = "clean_and_mesh" /\ out = None
    /\ LET cleaned == clean_heightmap(arg.heightmap) IN
         out' = Some([full_path |-> full_path(arg.heightmap), cleaned |-> cleaned,
                      mesh |-> HeightmapToMesh(cleaned)])
    /\ UNCHANGED << now, jobs, hist, env, worker, alive, owner, pc, loc, req, stream, arg, store, exports >>

InitClean ==
    /\ InitIdle(NoWorkload)
    /\ \E side \in {PlateSide} :
         arg \in { [fn |-> "clean_and_mesh", heightmap |-> hm] : hm \in Plates(side) }
    /\ out = None
    /\ NoStore /\ NoExports

NextClean == clean_and_mesh

SpecClean == InitClean /\ [][NextClean]_vars

\* ------------------------------------------------------------ calibrator
\* ConfidenceCalibrator.  Slopes, intercepts and raw confidences are in
\* hundredths, calibrated confidences in ten-thousandths.  A field of the
\* profile file is a number, absent, or bad (float() raises on it).

DefaultSlope == 92
DefaultIntercept == 4

Slopes == {-100, 0, 92, 150}
Intercepts == {-50, 4, 100}
RawConfidences == {-50, 0, 50, 100, 150}

Field(values) ==
    { [kind |-> "number", value |-> v] : v \in values }
        \cup { [kind |-> "absent", value |-> 0], [kind |-> "bad", value |-> 0] }

Profiles ==
    { None } \cup
    { Some([slope |-> s, intercept |-> i]) : s \in Field(Slopes), i \in Field(Intercepts) }

\* __init__ and _load_profile: the defaults, overwritten field by field until
\* a conversion raises.
ConfidenceCalibrator(profile) ==
    IF profile = None THEN [slope |-> DefaultSlope, intercept |-> DefaultIntercept]
    ELSE IF profile[1].slope.kind = "bad"
    THEN [slope |-> DefaultSlope, intercept |-> DefaultIntercept]
    ELSE LET s == IF profile[1].slope.kind = "absent" THEN DefaultSlope
                  ELSE profile[1].slope.value
         IN  IF profile[1].intercept.kind = "number"
             THEN [slope |-> s, intercept |-> profile[1].intercept.value]
             ELSE [slope |-> s, intercept |-> DefaultIntercept]

\* max(0.0, min(1.0, slope * raw + intercept))
calibrate_of(c, raw) == Max(0, Min(10000, c.slope * raw + 100 * c.intercept))

calibrate ==
    /\ arg.fn = "calibrate" /\ out = None
    /\ LET c == ConfidenceCalibrator(arg.profile) IN
         out' = Some([calibrator |-> c, a |-> calibrate_of(c, arg.a), b |-> calibrate_of(c, arg.b)])
    /\ UNCHANGED << now, jobs, hist, env, worker, alive, owner, pc, loc, req, stream, arg, store, exports >>

InitCalibrator ==
    /\ InitIdle(NoWorkload)
    /\ arg \in { [fn |-> "calibrate", profile |-> p, a |-> a, b |-> b] :
                   p \in Profiles, a \in RawConfidences, b \in RawConfidences }
    /\ out = None
    /\ NoStore /\ NoExports

NextCalibrator == calibrate

SpecCalibrator == InitCalibrator /\ [][NextCalibrator]_vars

\* ---------------------------------------------------------- export artifacts
\* AsyncJobWorker._process_export in each worker process, the export routes
\* of api/routes/reconstruct.py, and the one reconstruction (model_id 1) they
\* work on.  The leasing of the export jobs is left to the job engine above.

MaxArtifacts == 2
ClockSkew == 1

\* timedelta(hours=72)
ExpiryHours == 72

ExpirySeconds == ExpiryHours * 3600

SecretKey == "change-me"

MeshContents == {1, 2}
ExportFormats == {"stl", "gltf"}

\* hashlib.sha256(data).hexdigest(): no two contents of the model collide.
Sha256(data) == [sha256 |-> data]

\* hmac.new(secret, checksum, sha256).hexdigest()
Hmac(secret, msg) == [hmac |-> msg, key |-> secret]

Extension(format) == IF format = "gltf" THEN "glb" ELSE format

\* convert_mesh(data, input_format="glb", output_format, quality_profile)
convert_mesh(data, output_format, quality_profile) ==
    [from |-> data, format |-> output_format, profile |-> quality_profile]

\* f"exports/{model_id}_v{export_version}.{ext}"
ExportKey(version, ext) == << "exports", version, ext >>

\* f"exports/{model_id}.{extension}", the key of a fetch without artifact_id
UnversionedKey(ext) == << "exports", 0, ext >>

Rows(table) == { table[i] : i \in 1..Len(table) }

\* _process_reconstruct commits a mesh for the reconstruction (first run, or a
\* later run of its job on the X-rays the case then has).
process_reconstruct_commit(m) ==
    /\ m \in MeshContents /\ m # mesh
    /\ mesh' = m
    /\ UNCHANGED << now, jobs, hist, env, worker, alive, owner, pc, loc, req,
                    stream, arg, out, store, artifacts, exp, resp, recon >>

\* _process_export up to the version count (async_jobs.py:231-253).
process_export_convert(o, format) ==
    /\ o \in env.workers
    /\ exp[o].pc = "idle"
    /\ mesh # 0
    /\ format \in ExportFormats
    /\ Len(artifacts) < MaxArtifacts
    /\ LET ext == Extension(format)
           profile == IF ext = "stl" THEN "print" ELSE "clinical"
           count == Cardinality({ i \in 1..Len(artifacts) : artifacts[i].format = format })
       IN  exp' = [exp EXCEPT ![o] = [pc |-> "save", format |-> format,
                                      converted |-> Some(convert_mesh(mesh, ext, profile)),
                                      version |-> count + 1]]
    /\ UNCHANGED << now, jobs, hist, env, worker, alive, owner, pc, loc, req,
                    stream, arg, out, store, mesh, artifacts, resp, recon >>

\* save_export(converted, f"{model_id}_v{export_version}", output_format)
process_export_save(o) ==
    /\ exp[o].pc = "save"
    /\ files' = Write(files, ExportKey(exp[o].version, Extension(exp[o].format)),
                      exp[o].converted[1])
    /\ exp' = [exp EXCEPT ![o].pc = "commit"]
    /\ UNCHANGED << now, jobs, hist, env, worker, alive, owner, pc, loc, req,
                    stream, arg, out, rng, runs, mesh, artifacts, resp, recon >>

\* checksum, signature, expires_at and the INSERT (async_jobs.py:255-284).
process_export_commit(o) ==
    /\ exp[o].pc = "commit"
    /\ LET checksum == Sha256(exp[o].converted[1]) IN
         artifacts' = Append(artifacts,
             [id |-> Len(artifacts) + 1, format |-> exp[o].format,
              file_key |-> ExportKey(exp[o].version, Extension(exp[o].format)),
              checksum_sha256 |-> checksum,
              signature |-> Hmac(SecretKey, checksum),
              version |-> exp[o].version,
              expires_at |-> now + ExpirySeconds,
              created_at |-> now])
    /\ exp' = [exp EXCEPT ![o] = IdleExport]
    /\ UNCHANGED << now, jobs, hist, env, worker, alive, owner, pc, loc, req,
                    stream, arg, out, store, mesh, resp, recon >>

Response(route, id, status, detail) ==
    Some([route |-> route, artifact_id |-> id, status |-> status, detail |-> detail])

\* GET /model/1/export without async_mode: convert_mesh is called with units
\* and tolerance_mm, which it does not take, so the route ends in a TypeError
\* before anything is saved.
export_model(format) ==
    /\ format \in ExportFormats
    /\ resp' = IF mesh = 0
               THEN Response("export", 0, 404, "Model not ready")
               ELSE Response("export", 0, 500, "TypeError")
    /\ UNCHANGED << now, jobs, hist, env, worker, alive, owner, pc, loc, req,
                    stream, arg, out, store, mesh, artifacts, exp, recon >>

\* A fetch that would not look at expires_at.
ExpiredNever(a, at) == FALSE

\* artifact.expires_at and artifact.expires_at < datetime.utcnow()
Expired(a, at) == a.expires_at < at

\* GET /model/1/export-file?artifact_id=id (id 0: no artifact_id, format stl)
get_export_file(id) ==
    /\ id \in 0..(MaxArtifacts + 1)
    /\ LET found == { a \in Rows(artifacts) : a.id = id } IN
         resp' =
           IF mesh = 0 THEN Response("export-file", id, 404, "Model not ready")
           ELSE IF id # 0 /\ found = {}
           THEN Response("export-file", id, 404, "Export artifact not found")
           ELSE IF id # 0 /\ (\E a \in found : Expired(a, now))
           THEN Response("export-file", id, 410, "Export artifact expired")
           ELSE LET key == IF id = 0 THEN UnversionedKey("stl")
                           ELSE (CHOOSE a \in found : TRUE).file_key
                IN  IF Stored(files, key) = {}
                    THEN Response("export-file", id, 404, "Export not found")
                    ELSE Response("export-file", id, 200, "file")
    /\ UNCHANGED << now, jobs, hist, env, worker, alive, owner, pc, loc, req,
                    stream, arg, out, store, mesh, artifacts, exp, recon >>

\* Time passes: a second, or the whole life of an artifact.  The instants
\* followed are those within ClockSkew seconds after a multiple of 72 hours.
Elapse ==
    /\ \E d \in {1, ExpirySeconds} :
         /\ now + d <= env.max_time
         /\ (now + d) % ExpirySeconds <= ClockSkew
         /\ now' = now + d
    /\ UNCHANGED << jobs, hist, env, worker, alive, owner, pc, loc, req, aux >>

\* Two worker processes exporting at one instant.
InitExport ==
    InitWith([workers |-> Objects, max_time |-> 0, requests |-> {}, errors |-> {}, cap |-> 0])

\* One worker process, and time enough for an artifact to expire.
InitExpiry ==
    InitWith([workers |-> {1}, max_time |-> ExpirySeconds + ClockSkew,
              requests |-> {}, errors |-> {}, cap |-> 0])

NextExport ==
    \/ \E m \in MeshContents : process_reconstruct_commit(m)
    \/ \E o \in Objects, f \in ExportFormats : process_export_convert(o, f)
    \/ \E o \in Objects : process_export_save(o)
    \/ \E o \in Objects : process_export_commit(o)
    \/ \E f \in ExportFormats : export_model(f)
    \/ \E id \in 0..(MaxArtifacts + 1) : get_export_file(id)

NextExpiry == NextExport \/ Elapse

SpecExport == InitExport /\ [][NextExport]_vars

SpecExpiry == InitExpiry /\ [][NextExpiry]_vars

\* ------------------------------------------------------ mesh post-processor
\* services/mesh.py: _decimate and _repair_mesh.  A mesh is known by where it
\* comes from and by its face count; ratios are in thousandths.

MaxFaces == 300

\* max(128, ...)
MinTargetFaces == 128

\* if ratio >= 0.999
SkipRatio == 999

\* target_ratio of draft, clinical and print, and ratios that skip decimation
Ratios == {500, 750, 850, 999, 1000}

\* What mesh.simplify_quadratic_decimation(target_faces) may do.
Simplifiers == {"raises", "not a mesh", "no faces", "decimated"}

\* int(len(mesh.faces) * ratio) with no least face count
target_faces_unfloored(n, ratio) == (n * ratio) \div 1000

\* max(128, int(len(mesh.faces) * ratio))
target_faces(n, ratio) == Max(MinTargetFaces, (n * ratio) \div 1000)

InputMesh(n) == [mesh |-> "input", faces |-> n]

\* The result of _decimate and the face count it asked the simplifier for.
decimate_of(n, ratio, simplifier) ==
    IF ratio >= SkipRatio THEN [mesh |-> InputMesh(n), requested |-> None]
    ELSE IF target_faces(n, ratio) >= n THEN [mesh |-> InputMesh(n), requested |-> None]
    ELSE LET t == target_faces(n, ratio) IN
           IF simplifier = "decimated"
           THEN [mesh |-> [mesh |-> "decimated", faces |-> t], requested |-> Some(t)]
           ELSE [mesh |-> InputMesh(n), requested |-> Some(t)]

decimate ==
    /\ arg.fn = "decimate" /\ out = None
    /\ out' = Some(decimate_of(arg.faces, arg.ratio, arg.simplifier))
    /\ UNCHANGED << now, jobs, hist, env, worker, alive, owner, pc, loc, req, stream, arg, store, exports >>

\* The sub-steps of _repair_mesh in the order of the calls.
RepairSteps ==
    << "remove_unreferenced_vertices", "remove_degenerate_faces",
       "remove_duplicate_faces", "merge_vertices", "fill_holes" >>

\* The calls that sit in a try / except Exception: pass.
GuardedSteps ==
    { "remove_degenerate_faces", "remove_duplicate_faces", "merge_vertices", "fill_holes" }

\* _repair_mesh from its k-th sub-step on, when the sub-steps in fails raise:
\* the sub-steps called, those that took effect, and whether the pass raised.
RECURSIVE RepairFrom(_, _, _)
RepairFrom(k, fails, st) ==
    IF k > Len(RepairSteps) THEN st
    ELSE LET step == RepairSteps[k]
             called == [st EXCEPT !.attempted = Append(st.attempted, step)]
         IN  IF step \notin fails
             THEN RepairFrom(k + 1, fails, [called EXCEPT !.applied = Append(st.applied, step)])
             ELSE IF step \in GuardedSteps
             THEN RepairFrom(k + 1, fails, called)
             ELSE [called EXCEPT !.ok = FALSE]

repair_mesh_of(fails) == RepairFrom(1, fails, [ok |-> TRUE, attempted |-> << >>, applied |-> << >>])

repair_mesh ==
    /\ arg.fn = "repair_mesh" /\ out = None
    /\ out' = Some(repair_mesh_of(arg.fails))
    /\ UNCHANGED << now, jobs, hist, env, worker, alive, owner, pc, loc, req, stream, arg, store, exports >>

InitPostProcess ==
    /\ InitIdle(NoWorkload)
    /\ \/ \E n \in 0..MaxFaces :
            arg \in { [fn |-> "decimate", faces |-> n, ratio |-> r, simplifier |-> s] :
                        r \in Ratios, s \in Simplifiers }
       \/ arg \in { [fn |-> "repair_mesh", fails |-> f] :
                      f \in SUBSET { RepairSteps[k] : k \in 1..Len(RepairSteps) } }
    /\ out = None
    /\ NoStore /\ NoExports

NextPostProcess == decimate \/ repair_mesh

SpecPostProcess == InitPostProcess /\ [][NextPostProcess]_vars

\* ------------------------------------------- the worker left to itself
\* The process of main.py: start() at startup, no stop(), no operator retry.
FairTime == 3

InitFair ==
    InitWith([workers |-> {1}, max_time |-> FairTime,
              requests |-> { <<"reconstruct", 2>>, <<"export", 1>> },
              errors |-> {ShortError}, cap |-> 0])

NextFair ==
    \/ \E r \in env.requests : enqueue_job(r[1], r[2])
    \/ \E o \in Objects : start(o)
    \/ \E t \in Threads : LoopStep(t)
    \/ Tick

\* The application starts its worker, a started thread is scheduled, its
\* handlers return or raise, and time passes.
SpecFair ==
    /\ InitFair
    /\ [][NextFair]_vars
    /\ WF_vars(start(1))
    /\ \A t \in Threads : WF_vars(LoopStep(t))
    /\ WF_vars(Tick)

\* ----------------------------------------------- the reconstruct handler
\* POST /reconstruct (api/routes/reconstruct.py) and
\* AsyncJobWorker._process_reconstruct, on the one reconstruction the route
\* creates.  recon.pc is where the worker's thread is in the handler.

\* max_attempts=3
RouteMaxAttempts == 3

\* The route adds the reconstructions row with status queued and enqueues the
\* reconstruct job that names it in its payload.
post_reconstruct ==
    /\ recon.status = "none"
    /\ LET id == Cardinality(JobIds) + 1
           job == NewJob("reconstruct", RouteMaxAttempts) IN
         /\ jobs' = [j \in JobIds \cup {id} |-> IF j = id THEN job ELSE jobs[j]]
         /\ hist' = [j \in JobIds \cup {id} |-> IF j = id THEN << Entry(job) >> ELSE hist[j]]
    /\ recon' = [status |-> "queued", pc |-> "idle"]
    /\ UNCHANGED << now, env, worker, alive, owner, pc, loc, req,
                    stream, arg, out, store, mesh, artifacts, exp, resp >>

\* reconstruction.status = "running"; db.commit()
process_reconstruct_begin(t) ==
    /\ alive[t] /\ pc[t] = "process"
    /\ jobs[loc[t].job_id].job_type = "reconstruct"
    /\ recon.pc = "idle"
    /\ recon' = [status |-> "running", pc |-> "begun"]
    /\ UNCHANGED << now, jobs, hist, env, worker, alive, owner, pc, loc, req,
                    stream, arg, out, store, mesh, artifacts, exp, resp >>

\* An exception after that commit (no X-rays, an unknown model, a failing
\* pipeline, a failing later commit): the session is closed, what was
\* committed stays.
process_reconstruct_raise(t) ==
    /\ alive[t] /\ pc[t] = "process"
    /\ recon.pc # "idle"
    /\ \E e \in env.errors : Caught(t, e)
    /\ recon' = [recon EXCEPT !.pc = "idle"]
    /\ UNCHANGED << now, jobs, hist, env, worker, owner, req,
                    stream, arg, out, store, mesh, artifacts, exp, resp >>

\* reconstruction.status = "complete"; reconstruction.mesh_key = ...; db.commit()
process_reconstruct_complete(t) ==
    /\ alive[t] /\ pc[t] = "process"
    /\ recon.pc = "begun"
    /\ recon' = [status |-> "complete", pc |-> "complete"]
    /\ \E m \in MeshContents : mesh' = m
    /\ UNCHANGED << now, jobs, hist, env, worker, alive, owner, pc, loc, req,
                    stream, arg, out, store, artifacts, exp, resp >>

\* The handler returns its result and _process_job commits the success.
process_reconstruct_return(t) ==
    /\ alive[t] /\ pc[t] = "process"
    /\ recon.pc = "complete"
    /\ LET j == loc[t].job_id
           new == FlushAll(jobs[j], SuccessAssign(jobs[j].job_type, now)) IN
         /\ jobs' = [jobs EXCEPT ![j] = new]
         /\ hist' = [hist EXCEPT ![j] = Logged(j, new)]
    /\ pc' = [pc EXCEPT ![t] = "loop"]
    /\ loc' = [loc EXCEPT ![t] = NoLoc]
    /\ recon' = [recon EXCEPT !.pc = "idle"]
    /\ UNCHANGED << now, env, worker, alive, owner, req,
                    stream, arg, out, store, mesh, artifacts, exp, resp >>

\* One process, the one reconstruct job of the route and time for its three
\* attempts.
InitReconstruct ==
    InitWith([workers |-> {1}, max_time |-> LifecycleTime, requests |-> {},
              errors |-> {ShortError}, cap |-> 0])

NextReconstruct ==
    \/ post_reconstruct
    \/ \E o \in Objects : start(o)
    \/ \E t \in Threads : run_loop_wake(t)
    \/ \E t \in Threads : try_process_one_select(t)
    \/ \E t \in Threads : try_process_one_commit(t)
    \/ \E t \in Threads : process_reconstruct_begin(t)
    \/ \E t \in Threads : process_reconstruct_raise(t)
    \/ \E t \in Threads : process_reconstruct_complete(t)
    \/ \E t \in Threads : process_reconstruct_return(t)
    \/ \E t \in Threads : mark_failure_commit(t)
    \/ Tick

SpecReconstruct == InitReconstruct /\ [][NextReconstruct]_vars

\* =================================================================== claims
Busy(t) == pc[t] \in {"process", "mark"}

LeaseStep(t) == pc[t] = "lease" /\ pc'[t] = "process"
PickStep(t) == pc[t] = "loop" /\ pc'[t] = "lease"
IdlePollStep(t) == pc[t] = "loop" /\ pc'[t] = "sleep"
FailureStep(t) == pc[t] = "mark" /\ pc'[t] # "mark"
RetryStep(j) == req # None /\ req' = None /\ req[1].job_id = j

StatusesOf(h) == [i \in 1..Len(h) |-> h[i].status]
IsPrefix(a, b) == Len(a) <= Len(b) /\ \A i \in 1..Len(a) : a[i] = b[i]

\* ------------------------------------------------------------------- C1
\* C1: a job enqueued with max_attempts = 3 that no operator retries and whose
\* handler never succeeds goes through queued, running, queued, running,
\* queued, running, dead and no further; each requeue carries a strictly
\* larger available_at than the one before; once dead it has dead_letter
\* true, a non-null error and three attempts.
C1_Statuses == << "queued", "running", "queued", "running", "queued", "running", "dead" >>

C1_AlwaysFailingJob ==
    \A j \in JobIds :
        ( /\ jobs[j].max_attempts = 3
          /\ hist[j] # << >>
          /\ \A i \in 1..Len(hist[j]) : hist[j][i].status # "succeeded" )
        => LET h == hist[j] IN
             /\ IsPrefix(StatusesOf(h), C1_Statuses)
             /\ h[Len(h)].status = jobs[j].status
             /\ Len(h) >= 3 => h[1].available_at < h[3].available_at
             /\ Len(h) >= 5 => h[3].available_at < h[5].available_at
             /\ jobs[j].status = "dead" =>
                  /\ StatusesOf(h) = C1_Statuses
                  /\ jobs[j].dead_letter = TRUE
                  /\ jobs[j].error # None
                  /\ jobs[j].attempts = 3

C1_Witness ==
    \E j \in JobIds :
        /\ jobs[j].max_attempts = 3
        /\ jobs[j].status = "dead"
        /\ StatusesOf(hist[j]) = C1_Statuses

\* ------------------------------------------------------------------- C2
\* C2: with several worker loops on the same table, every lease commit finds
\* its job still queued and raises its attempts by exactly one, and no two
\* threads execute the same job at the same time.
C2_RaceFreeLease ==
    [][ /\ \A t1 \in Threads : \A t2 \in Threads :
             (t1 # t2 /\ Busy(t1) /\ Busy(t2)) => loc[t1].job_id # loc[t2].job_id
        /\ \A t \in Threads :
             LeaseStep(t) =>
               /\ jobs[loc[t].job_id].status = "queued"
               /\ jobs'[loc[t].job_id].attempts = jobs[loc[t].job_id].attempts + 1 ]_vars

\* ------------------------------------------------------------------- C3
\* C3: the job a worker picks is queued, not dead-lettered, due
\* (available_at <= now) and of least created_at among such jobs; the lease
\* commit makes exactly that job running with attempts + 1 and changes
\* nothing else; a poll that finds no such job changes no job.
C3_Due(j) ==
    jobs[j].status = "queued" /\ ~jobs[j].dead_letter /\ jobs[j].available_at <= now

C3_LeaseOldestEligible ==
    [][ \A t \in Threads :
          /\ PickStep(t) =>
               LET j == loc'[t].job_id IN
                 /\ j \in JobIds /\ C3_Due(j)
                 /\ \A k \in JobIds : C3_Due(k) => jobs[j].created_at <= jobs[k].created_at
                 /\ jobs' = jobs
          /\ LeaseStep(t) =>
               LET j == loc[t].job_id IN
                 /\ C3_Due(j)
                 /\ jobs' = [jobs EXCEPT ![j].status = "running",
                                         ![j].attempts = jobs[j].attempts + 1]
          /\ IdlePollStep(t) =>
               /\ jobs' = jobs
               /\ \A k \in JobIds : ~C3_Due(k) ]_vars

C3_Witness ==
    \E t \in Threads : \E k \in JobIds :
        /\ pc[t] = "process"
        /\ jobs[loc[t].job_id].status = "running"
        /\ jobs[loc[t].job_id].attempts = 1
        /\ k # loc[t].job_id
        /\ C3_Due(k)
        /\ jobs[loc[t].job_id].created_at < jobs[k].created_at

\* ------------------------------------------------------------------- C4
\* C4: a dead job stays dead with dead_letter true in every step, except in
\* the commit of a retry_job request for it, which leaves it queued.
C4_DeadUntilRetry ==
    [][ \A j \in JobIds :
          jobs[j].status = "dead" =>
            \/ jobs'[j].status = "dead" /\ jobs'[j].dead_letter = TRUE
            \/ RetryStep(j) /\ jobs'[j].status = "queued" ]_vars

C4_Witness ==
    \E t \in Threads : \E j \in JobIds :
        /\ alive[t] /\ pc[t] = "sleep"
        /\ jobs[j].status = "dead"
        /\ jobs[j].available_at <= now

\* ------------------------------------------------------------------- C5
\* C5: the commit of a retry_job request that found its job dead leaves the
\* job queued with dead_letter false, error null and available_at = now, so
\* the worker's filter accepts it at once; attempts, max_attempts, job_type
\* and payload are as before.
C5_RetryOfDead ==
    [][ \A j \in JobIds :
          (RetryStep(j) /\ req[1].row.status = "dead") =>
            /\ jobs'[j].status = "queued"
            /\ jobs'[j].dead_letter = FALSE
            /\ jobs'[j].error = None
            /\ jobs'[j].available_at = now
            /\ jobs'[j].attempts = jobs[j].attempts
            /\ jobs'[j].max_attempts = jobs[j].max_attempts
            /\ jobs'[j].job_type = jobs[j].job_type
            /\ jobs'[j].payload_json = jobs[j].payload_json ]_vars

C5_Witness ==
    \E j \in JobIds :
        /\ req = None
        /\ jobs[j].status = "queued"
        /\ jobs[j].finished_at # None /\ jobs[j].result_json = None
        /\ jobs[j].attempts >= 1
        /\ jobs[j].dead_letter = FALSE /\ jobs[j].error = None
        /\ jobs[j].available_at = now

\* ------------------------------------------------------------------- C6
\* C6: the commit of _mark_failure for a job with attempts < max_attempts
\* leaves it queued with available_at = now + min(30, 2^attempts) (2, 4, 8,
\* 16, then 30) and error = the first 2000 characters of the exception text;
\* with attempts >= max_attempts it leaves it dead with dead_letter true,
\* that same error and finished_at set.
C6_Delay(a) == CASE a = 1 -> 2 [] a = 2 -> 4 [] a = 3 -> 8 [] a = 4 -> 16 [] OTHER -> 30

C6_First2000(e) == [msg |-> e.msg, len |-> IF e.len > 2000 THEN 2000 ELSE e.len]

C6_FailureTransition ==
    [][ \A t \in Threads :
          FailureStep(t) =>
            LET j == loc[t].job_id
                e == loc[t].error[1] IN
              IF jobs[j].attempts < jobs[j].max_attempts
              THEN /\ jobs'[j].status = "queued"
                   /\ jobs'[j].available_at = now + C6_Delay(jobs[j].attempts)
                   /\ jobs'[j].error = << C6_First2000(e) >>
              ELSE /\ jobs'[j].status = "dead"
                   /\ jobs'[j].dead_letter = TRUE
                   /\ jobs'[j].error = << C6_First2000(e) >>
                   /\ jobs'[j].finished_at = << now >> ]_vars

\* ------------------------------------------------------------------- C7
\* C7: when a handler raises (an unsupported job_type always does), the
\* thread stays alive and enters _mark_failure for that job; the commit of
\* _mark_failure leaves the job queued or dead and the thread back at the
\* head of its loop.
C7_HandlerErrorsContained ==
    [][ \A t \in Threads :
          /\ (pc[t] = "process" /\ pc'[t] # "process") =>
               /\ alive'[t]
               /\ pc'[t] \in {"loop", "mark"}
               /\ jobs[loc[t].job_id].job_type \notin {"reconstruct", "export"}
                    => pc'[t] = "mark"
               /\ pc'[t] = "mark" => loc'[t].job_id = loc[t].job_id /\ loc'[t].error # None
               /\ pc'[t] = "loop" => jobs'[loc[t].job_id].status = "succeeded"
          /\ FailureStep(t) =>
               /\ alive'[t]
               /\ pc'[t] = "loop"
               /\ jobs'[loc[t].job_id].status \in {"queued", "dead"} ]_vars

C7_Witness ==
    \E t \in Threads : \E j \in JobIds :
        /\ alive[t] /\ pc[t] = "process"
        /\ loc[t].job_id # j
        /\ jobs[j].job_type \notin {"reconstruct", "export"}
        /\ jobs[j].status = "dead"
        /\ jobs[j].error # None

\* ------------------------------------------------------------------- C8
\* C8: in the one-process deployment at most one thread runs _run_loop, at
\* most one thread is executing a job, and at most one job is running.
C8_SingleWorker ==
    /\ Cardinality({ t \in Threads : alive[t] }) <= 1
    /\ Cardinality({ t \in Threads : Busy(t) }) <= 1
    /\ Cardinality({ j \in JobIds : jobs[j].status = "running" }) <= 1

C8_Witness ==
    \E t \in Threads : \E k \in JobIds :
        /\ alive[t] /\ pc[t] = "process"
        /\ worker[owner[t]].stop_event
        /\ k # loc[t].job_id
        /\ C3_Due(k)

\* ------------------------------------------------------------------- C9
\* C9 as stated: error is non-null only while status is failed or dead.
C9_ErrorOnlyFailedOrDead ==
    \A j \in JobIds : jobs[j].error # None => jobs[j].status \in {"failed", "dead"}

\* C9 amended: error is non-null only for a job that has failed an execution
\* and has not succeeded since: it is queued again, running again, or dead.
C9_ErrorOnlyAfterFailure ==
    \A j \in JobIds :
        jobs[j].error # None =>
            /\ jobs[j].status \in {"queued", "running", "dead"}
            /\ jobs[j].attempts >= 1

C9_Witness ==
    \E j \in JobIds :
        /\ jobs[j].error # None
        /\ jobs[j].status = "queued"
        /\ jobs[j].available_at > now

\* ------------------------------------------------------------------ C10
\* C10: result_json is non-null only while status is succeeded.
C10_ResultOnlySucceeded ==
    \A j \in JobIds : jobs[j].result_json # None => jobs[j].status = "succeeded"

\* ------------------------------------------------------------------ C11
\* C11: every event of the status stream carries the job's status at that
\* poll; the stream ends in exactly the polls whose snapshot is succeeded,
\* failed or dead, and in no other step; and the stream never stays open
\* for ever over a job that stays in a terminal status.
EmitStep == stream.open /\ stream'.events # stream.events

C11_StreamStopsAtTerminal ==
    /\ [][ /\ EmitStep =>
               /\ stream'.last = << jobs[stream.job_id].status >>
               /\ stream'.open <=>
                    jobs[stream.job_id].status \notin {"succeeded", "failed", "dead"}
           /\ (stream.open /\ ~EmitStep) => stream' = stream ]_vars
    /\ []<>~( /\ stream.open
              /\ jobs[stream.job_id].status \in {"succeeded", "failed", "dead"} )

C11_Witness ==
    /\ stream.job_id \in JobIds
    /\ ~stream.open
    /\ stream.last = << "dead" >>
    /\ jobs[stream.job_id].status = "dead"

\* ------------------------------------------------------------------ C12
\* C12: the triangles the Mesher emits for a heightmap of at least 2 rows
\* and 2 columns form a closed surface: every undirected edge of a triangle
\* is an edge of exactly two triangles.
EdgeCount(faces, a, b) ==
    Cardinality({ i \in 1..Len(faces) : {a, b} \subseteq {faces[i][1], faces[i][2], faces[i][3]} })

Closed(faces) ==
    \A i \in 1..Len(faces) :
        /\ EdgeCount(faces, faces[i][1], faces[i][2]) = 2
        /\ EdgeCount(faces, faces[i][2], faces[i][3]) = 2
        /\ EdgeCount(faces, faces[i][3], faces[i][1]) = 2

C12_MeshClosed ==
    (arg.fn = "heightmap_to_mesh" /\ out # None /\ arg.heightmap.rows >= 2 /\ arg.heightmap.cols >= 2)
        => out[1].ok /\ Closed(out[1].faces)

\* ------------------------------------------------------------------ C13
\* C13: in every confidence report the Mesher builds, observed_ratio +
\* adjusted_ratio + inferred_ratio, as reported after rounding to four
\* decimals, is 1 (within 1e-6, which for multiples of 1e-4 is equality).
C13_RatiosSumToOne ==
    (arg.fn = "heightmap_to_mesh" /\ out # None /\ out[1].ok)
        => LET r == out[1].report IN
             r.observed_ratio + r.adjusted_ratio + r.inferred_ratio = 10000

BlackPixel == [kind |-> "uniform", rows |-> 1, cols |-> 1, level |-> 0]

\* C14: a run on a single 1x1 black-pixel image completes without raising,
\* returns confidence 0.0 from the empty branch of the confidence report, and
\* produces a non-empty fallback mesh.
C14_BlackPixelRun ==
    (arg.fn = "run" /\ arg.inputs = << BlackPixel >>)
        => \A i \in 1..Len(runs) :
             /\ runs[i].ok
             /\ runs[i].confidence = 0
             /\ runs[i].confidence_report # None /\ runs[i].confidence_report[1].empty
             /\ runs[i].faces # << >>

\* The complement cells of a mask joined to the border of the grid by
\* 4-connected steps through complement cells, as a least fixed point.
Border(m) ==
    { c \in Cells(m.rows, m.cols) :
        c[1] = 0 \/ c[1] = m.rows - 1 \/ c[2] = 0 \/ c[2] = m.cols - 1 }

Adjacent(a, b) ==
    \/ a[1] = b[1] /\ (a[2] = b[2] + 1 \/ b[2] = a[2] + 1)
    \/ a[2] = b[2] /\ (a[1] = b[1] + 1 \/ b[1] = a[1] + 1)

RECURSIVE Grow(_, _)
Grow(free, S) ==
    LET T == S \cup { c \in free : \E d \in S : Adjacent(c, d) } IN
      IF T = S THEN S ELSE Grow(free, T)

BorderReachable(m) ==
    LET free == Cells(m.rows, m.cols) \ m.set IN Grow(free, free \cap Border(m))

\* C15: the mask returned by hole filling has no interior holes (every cell of
\* its complement is joined to a border cell by 4-connected steps through the
\* complement), contains the input mask, and is a fixed point of hole filling.
C15_NoInteriorHoles ==
    (arg.fn = "fill_holes" /\ out # None)
        => LET m == arg.mask
               f == out[1]
           IN  /\ f.rows = m.rows /\ f.cols = m.cols
               /\ (Cells(f.rows, f.cols) \ f.set) = BorderReachable(f)
               /\ m.set \subseteq f.set
               /\ fill_holes_of(f) = f

\* A hole has been filled: the result is a strict superset of the input.
C15_Witness ==
    /\ arg.fn = "fill_holes" /\ out # None
    /\ out[1].set # arg.mask.set
    /\ out[1].set # Cells(arg.mask.rows, arg.mask.cols)

C17_MonotonicBounded ==
    (arg.fn = "calibrate" /\ out # None)
        => /\ arg.a <= arg.b => out[1].a <= out[1].b
           /\ out[1].a \in 0..10000 /\ out[1].b \in 0..10000

\* C18: a job that names an unknown reconstruction model fails fast: once
\* the failure is recorded the job engine neither requeues the job nor
\* executes it again.
C18_ValidationNotRetried ==
    \A j \in JobIds :
        jobs[j].error = Some(Truncate(UnknownModelError, ErrorLimit))
            => jobs[j].status # "queued" /\ jobs[j].attempts <= 1

FetchStep(id) ==
    /\ resp' # resp
    /\ resp'[1].route = "export-file" /\ resp'[1].artifact_id = id

FloorOf(n, ratio) == CHOOSE k \in 0..n : k * 1000 <= n * ratio /\ n * ratio < (k + 1) * 1000

\* C21: decimation returns the input mesh unchanged when ratio >= 0.999 or
\* when max(128, floor(n * ratio)) >= n (so for every mesh of at most 128
\* faces); otherwise it asks for exactly max(128, floor(n * ratio)) faces, and
\* returns the input mesh when the simplifier fails or returns no faces.
C21_TinyMeshKept ==
    (arg.fn = "decimate" /\ out # None)
        => LET n == arg.faces
               want == IF FloorOf(n, arg.ratio) > 128 THEN FloorOf(n, arg.ratio) ELSE 128
               r == out[1]
           IN  /\ (arg.ratio >= 999 \/ want >= n)
                    => r.mesh = InputMesh(n) /\ r.requested = None
               /\ n <= 128 => r.mesh = InputMesh(n) /\ r.requested = None
               /\ ~(arg.ratio >= 999 \/ want >= n)
                    => /\ r.requested = Some(want)
                       /\ arg.simplifier # "decimated" => r.mesh = InputMesh(n)
                       /\ arg.simplifier = "decimated" => r.mesh.faces = want

\* The draft profile on a cube: 12 faces, ratio 0.5, returned as it is.
C21_Witness ==
    /\ arg.fn = "decimate" /\ out # None
    /\ arg.faces = 12 /\ arg.ratio = 500
    /\ out[1].mesh = InputMesh(12)

\* C22: when any sub-step of the repair pass raises, the pass does not raise
\* and every later sub-step is still attempted.
C22_RepairBestEffort ==
    (arg.fn = "repair_mesh" /\ out # None)
        => /\ out[1].ok
           /\ out[1].attempted = RepairSteps

\* C24: for every heightmap with at least 2 rows and 2 columns the Mesher
\* raises no error and returns a non-empty triangle list whose indices all lie
\* in 0 .. 2 * rows * cols - 1, the fallback triangles included.
C24_FacesInRange ==
    (arg.fn = "heightmap_to_mesh" /\ out # None
        /\ arg.heightmap.rows >= 2 /\ arg.heightmap.cols >= 2)
        => /\ out[1].ok
           /\ out[1].faces # << >>
           /\ \A i \in 1..Len(out[1].faces) : \A k \in 1..3 :
                out[1].faces[i][k] \in 0..(2 * arg.heightmap.rows * arg.heightmap.cols - 1)

\* The fallback triangles have been emitted for a heightmap with no support.
C24_Witness ==
    /\ arg.fn = "heightmap_to_mesh" /\ out # None
    /\ \A cell \in DOMAIN arg.heightmap.h : arg.heightmap.h[cell] = 0
    /\ out[1].ok /\ Len(out[1].faces) = 3

\* ------------------------------------------------------------------ C23
\* The cell grid of the Mesher for a heightmap, as a mask of its active cells.
ActiveCells(hm) ==
    [rows |-> hm.rows - 1, cols |-> hm.cols - 1,
     set |-> { c \in Cells(hm.rows - 1, hm.cols - 1) : cell_active(hm, c[1], c[2]) }]

\* C23: when the Region Cleaner runs its full path, the mesh of the cleaned
\* heightmap has no interior void: every inactive cell of the Mesher is joined
\* to the border of the cell grid by 4-connected steps through inactive cells.
C23_NoInteriorVoid ==
    (arg.fn = "clean_and_mesh" /\ out # None /\ out[1].full_path)
        => LET m == ActiveCells(out[1].cleaned) IN
             Cells(m.rows, m.cols) \ m.set = BorderReachable(m)

\* The full path is taken on a plate with a zone inside it.
C23_FullPathTaken ==
    /\ arg.fn = "clean_and_mesh" /\ out # None /\ out[1].full_path
    /\ out[1].mesh.ok
    /\ \E cell \in DOMAIN arg.heightmap.h : arg.heightmap.h[cell] = 0

\* ------------------------------------------------------------------ C26
\* C26: in every reachable state, operator retries included, the attempts
\* counter of each job is at most max(1, max_attempts).
C26_AttemptsWithinBudget ==
    \A j \in JobIds : jobs[j].attempts <= MaxAttemptsOf(jobs[j])

\* C26 as the code has it: retry_job keeps attempts, so the bound holds for a
\* job as long as no operator retry of it has been committed.
C26_WithinBudgetUntilRetry ==
    \A j \in JobIds : hist[j] # << >> => jobs[j].attempts <= MaxAttemptsOf(jobs[j])

\* A job never retried by an operator has used its whole budget and is dead.
C26_Witness ==
    \E j \in JobIds :
        /\ hist[j] # << >>
        /\ jobs[j].status = "dead"
        /\ jobs[j].attempts = MaxAttemptsOf(jobs[j])

\* ------------------------------------------------------------------ C27
\* C27: in every reachable state, whatever the interleaving of the worker's
\* steps with retry_job requests, a job's dead_letter flag is true exactly
\* when its status is dead; no job is left queued with dead_letter true.
C27_DeadLetterIffDead ==
    \A j \in JobIds : jobs[j].dead_letter = (jobs[j].status = "dead")

\* ------------------------------------------------------------------ C28
\* C28: a job's status becomes succeeded or dead only from running, whatever
\* retry_job requests come in during an execution, and a job that has reached
\* succeeded (it holds a result) is never leased again.
C28_TerminalOnlyFromRunning ==
    [][\A j \in JobIds :
         /\ (jobs'[j].status \in {"succeeded", "dead"} /\ jobs'[j].status # jobs[j].status)
                => jobs[j].status = "running"
         /\ (jobs'[j].status = "running" /\ jobs[j].status # "running")
                => jobs[j].result_json = None]_vars

\* ------------------------------------------------------------------ C29
\* C29: after a sequence of start() and stop() calls that ends with start(),
\* a stop() during a handler that outlasts the join included, a worker loop
\* keeps running: every eligible queued job is eventually leased.
C29_LeasedAfterLastStart ==
    \A j \in 1..2 :
        (arg # NoCall /\ j \in JobIds /\ Eligible(j, now))
            ~> (j \in JobIds /\ jobs[j].status = "running")

\* The same, when the last start() found no stop event pending.
C29_LeasedAfterCleanStart ==
    \A j \in 1..2 :
        (arg # NoCall /\ ~worker[1].stop_event /\ j \in JobIds /\ Eligible(j, now))
            ~> (j \in JobIds /\ jobs[j].status = "running")

\* ------------------------------------------------------------------ C25
\* The job is succeeded or dead, or it waits for an instant after the last
\* one of the clock.
Settled(j) ==
    /\ j \in JobIds
    /\ \/ jobs[j].status \in {"succeeded", "dead"}
       \/ jobs[j].status = "queued" /\ jobs[j].available_at > env.max_time

\* C25: with a running worker and no operator retry every enqueued job ends
\* succeeded or dead, after at most max(1, max_attempts) executions, and a
\* job waiting out its backoff keeps no eligible job from being leased.
C25_EveryJobSettles ==
    /\ [](\A j \in JobIds : jobs[j].attempts <= MaxAttemptsOf(jobs[j]))
    /\ \A j \in 1..2 : (j \in JobIds) ~> Settled(j)
    /\ \A j \in 1..2 :
         (j \in JobIds /\ Eligible(j, now)) ~> (j \in JobIds /\ jobs[j].status = "running")

\* The older job has failed and waits out its backoff while the later job has
\* been run to the end.
C25_Witness ==
    \E j, k \in JobIds :
        /\ jobs[j].created_at < jobs[k].created_at
        /\ jobs[j].status = "queued" /\ jobs[j].attempts = 1 /\ jobs[j].available_at > now
        /\ jobs[k].status \in {"succeeded", "dead"}

\* ------------------------------------------------------------------ C30
\* C30: whenever a reconstruct job is succeeded or dead, the reconstruction
\* named in its payload is not left running: it is complete after a success,
\* and not running after the job is dead-lettered.
C30_ReconstructionSettled ==
    \A j \in JobIds :
        jobs[j].job_type = "reconstruct"
            => /\ jobs[j].status = "succeeded" => recon.status = "complete"
               /\ jobs[j].status = "dead" => recon.status # "running"

\* After a success the reconstruction is complete.
C30_CompleteAfterSuccess ==
    \A j \in JobIds :
        (jobs[j].job_type = "reconstruct" /\ jobs[j].status = "succeeded")
            => recon.status = "complete"

====
